---- MODULE Spec2Model ----
(***************************************************************************)
(* A model of package flac (src/flac.go): the stream session, its three    *)
(* constructors (New, Parse, NewSeek), frame access (Next, ParseNext) and  *)
(* the seek subsystem (Seek, makeSeekTable, searchFromStart/Current/End).  *)
(*                                                                         *)
(* The byte source is modelled by its layout, not by its bytes:            *)
(*   [ID3v2 header 10 bytes + body] "fLaC" [metadata blocks] [frames]      *)
(* A position is a byte offset from the start of the source.  The model    *)
(* draws only sources whose bytes outside the real signature do not spell  *)
(* "fLaC" and whose bytes inside a frame do not look like a frame header.  *)
(*                                                                         *)
(* Sample numbers and offsets of the model stay far below 2^63, where the  *)
(* conversions int64(x) and uint64(x) of the source keep the value.        *)
(***************************************************************************)
EXTENDS Integers, Sequences, FiniteSets, TLC

VARIABLES
    in,            \* the source given to the constructor (never changes)
    pc,            \* "start" | "ready" | "failed" | "panicked"
    ctor,          \* which constructor built the session
    buffered,      \* stream.r is a *bufio.Reader (New, Parse), not a ReadSeeker
    pos,           \* read position of stream.r
    sigAt,         \* offset at which the compared signature bytes were read
    Blocks,        \* stream.Blocks (types of the retained blocks)
    hasTable,      \* stream.seekTable != nil
    seekTable,     \* stream.seekTable.Points
    seekTableSize, \* stream.seekTableSize
    dataStart,     \* stream.dataStart
    origin,        \* where seekTable came from: "none" | "embedded" | "built"
    scans,         \* how many times makeSeekTable was started (up to MaxScans)
    last           \* the last call made on the session and what it returned

vars == <<in, pc, ctor, buffered, pos, sigAt, Blocks, hasTable, seekTable,
          seekTableSize, dataStart, origin, scans, last>>

----------------------------------------------------------------------------
(* Bounds of the model *)

\* frames of a short stream
MaxFrames == 3
\* frames of the longest stream whose seek table is built (SpecBuild)
LongFrames == 210
\* a call of Seek may have its k-th repositioning of the source fail, k <= the
\* number of frames + this
MaxSeekFail == 5
\* in every mode, the k-th repositioning may fail for k <= this
FirstSeekFail == 1
\* starts of makeSeekTable that are counted
MaxScans == 2
\* frames of the streams behind a tag of every declared size (SpecSize)
TagFrames == 22

(* Program constants *)

defaultSeekTableSize == 100
\* bufio's buffer size, used by bufio.NewReader
defaultBufSize == 4096
\* io.SeekStart, io.SeekCurrent, io.SeekEnd
SeekStart == 0
SeekCurrent == 1
SeekEnd == 2

----------------------------------------------------------------------------
(* The source *)

\* the kinds of frame a stream is made of: byte length, header length, block size
KindA == [len |-> 5, hdr |-> 2, bs |-> 2]
KindB == [len |-> 3, hdr |-> 1, bs |-> 1]

\* a frame whose header parses and whose CRC-16 footer does not match
CorruptFrame == [len |-> 3, hdr |-> 1, bs |-> 1]

\* the bytes and the samples of frames lo .. hi
RECURSIVE LenOf(_, _, _)
LenOf(ks, lo, hi) ==
    IF lo > hi THEN 0
    ELSE IF lo = hi THEN ks[lo].len
    ELSE LenOf(ks, lo, (lo + hi) \div 2) + LenOf(ks, (lo + hi) \div 2 + 1, hi)

RECURSIVE BsOf(_, _, _)
BsOf(ks, lo, hi) ==
    IF lo > hi THEN 0
    ELSE IF lo = hi THEN ks[lo].bs
    ELSE BsOf(ks, lo, (lo + hi) \div 2) + BsOf(ks, (lo + hi) \div 2 + 1, hi)

SumLen(ks, k) == LenOf(ks, 1, k)
SumBs(ks, k) == BsOf(ks, 1, k)

\* frames with the offset of their first byte (from the first frame) and the
\* number of their first sample
MkFrames(ks) ==
    [i \in 1..Len(ks) |->
        [len |-> ks[i].len, hdr |-> ks[i].hdr, bs |-> ks[i].bs,
         start |-> SumLen(ks, i - 1), first |-> SumBs(ks, i - 1)]]

\* n frames of one kind, and n frames of alternating kinds
Uniform(n) == [i \in 1..n |-> KindA]
Alternating(n) == [i \in 1..n |-> IF i % 2 = 1 THEN KindA ELSE KindB]

ShortStreams == { Uniform(n) : n \in 0..MaxFrames } \cup { Alternating(n) : n \in 0..MaxFrames }

ZeroPoint == [sampleNum |-> 0, offset |-> 0, nSamples |-> 0]

\* the seek table an encoder writes: one point per frame, at the frame's start
AllStarts(frames) ==
    [i \in 1..Len(frames) |->
        [sampleNum |-> frames[i].first, offset |-> frames[i].start,
         nSamples |-> frames[i].bs]]

StreamInfoBlock == [type |-> "streaminfo", size |-> 38, points |-> <<>>]
ReservedBlock == [type |-> "reserved", size |-> 7, points |-> <<>>]
PaddingBlock == [type |-> "padding", size |-> 6, points |-> <<>>]
\* a block the metadata decoder fails on
BadBlock == [type |-> "bad", size |-> 5, points |-> <<>>]
SeekTableBlock(points) ==
    [type |-> "seektable", size |-> 4 + 18 * Len(points), points |-> points]

\* the metadata chains of the sources; the last block of a chain is the one
\* marked last
MetaChoices(frames) ==
    { <<StreamInfoBlock>>,
      <<StreamInfoBlock, SeekTableBlock(AllStarts(frames))>>,
      <<StreamInfoBlock, SeekTableBlock(<<>>)>>,
      <<StreamInfoBlock, ReservedBlock,
        SeekTableBlock(IF frames = <<>> THEN <<>> ELSE Tail(AllStarts(frames))),
        PaddingBlock>>,
      <<StreamInfoBlock, ReservedBlock>>,
      <<StreamInfoBlock, BadBlock, PaddingBlock>>,
      <<ReservedBlock, StreamInfoBlock>>,
      <<BadBlock, StreamInfoBlock>>,
      <<PaddingBlock>> }

\* the four size bytes of a prepended ID3v2 header; <<>> when there is none
TagChoices == { <<>>, <<0, 0, 0, 0>>, <<0, 0, 0, 3>>, <<0, 0, 31, 122>> }

RECURSIVE BitOr(_, _)
BitOr(a, b) ==
    IF a = 0 THEN b
    ELSE IF b = 0 THEN a
    ELSE (IF a % 2 = 1 \/ b % 2 = 1 THEN 1 ELSE 0) + 2 * BitOr(a \div 2, b \div 2)

\* size := int(b0)<<21 | int(b1)<<14 | int(b2)<<7 | int(b3)
synchsafe(b) ==
    BitOr(BitOr(b[1] * 2097152, b[2] * 16384), BitOr(b[3] * 128, b[4]))

\* the length an ID3v2 header declares for the body of the tag: four bytes of
\* seven bits each, the high bit of a byte not counted
tagBody(b) ==
    (b[1] % 128) * 2097152 + (b[2] % 128) * 16384 + (b[3] % 128) * 128 + (b[4] % 128)

RECURSIVE SumSize(_, _)
SumSize(bl, k) == IF k = 0 THEN 0 ELSE SumSize(bl, k - 1) + bl[k].size

\* the samples of the frames
SamplesOf(frames) ==
    IF frames = <<>> THEN 0 ELSE frames[Len(frames)].first + frames[Len(frames)].bs

\* the totals a StreamInfo block declares for the frames: their samples, 0
\* (the total is not known) and a total below that of the frames
DeclaredTotals(frames) == {SamplesOf(frames), 0, 1}

\* a source: its frames, what follows them ("eof" or "corrupt"), its tag, its
\* metadata chain, whether it is an io.ReadSeeker and the NSamples its
\* StreamInfo block declares, with its layout and the samples of its frames
MkInput(frames, tail, tag, blocks, seekable, declared) ==
    LET tagLen == IF tag = <<>> THEN 0 ELSE 10 + tagBody(tag)
        base == tagLen + 4 + SumSize(blocks, Len(blocks))
        n == Len(frames)
        body == IF n = 0 THEN 0 ELSE frames[n].start + frames[n].len
    IN [frames |-> frames,
        tail |-> tail,
        tag |-> tag,
        blocks |-> blocks,
        seekable |-> seekable,
        sigOff |-> tagLen,
        frameBase |-> base,
        bodyEnd |-> base + body,
        fileLen |-> base + body + (IF tail = "corrupt" THEN CorruptFrame.len ELSE 0),
        samples |-> SamplesOf(frames),
        nsamples |-> declared]

\* the sources the constructors are given: every short stream behind every
\* metadata chain; a corrupt last frame, a prepended tag, a source that
\* cannot seek with the plain chains.  StreamInfo declares the samples of the
\* frames
Inputs ==
    UNION { { MkInput(fr, "eof", <<>>, blocks, TRUE, SamplesOf(fr)) :
                blocks \in MetaChoices(fr) }
            \cup { MkInput(fr, "eof", tag, blocks, TRUE, SamplesOf(fr)) :
                tag \in TagChoices,
                blocks \in { <<StreamInfoBlock>>,
                             <<StreamInfoBlock, SeekTableBlock(AllStarts(fr))>> } }
            \cup { MkInput(fr, "corrupt", <<>>, blocks, TRUE, SamplesOf(fr)) :
                blocks \in { <<StreamInfoBlock>>,
                             <<StreamInfoBlock, SeekTableBlock(AllStarts(fr))>> } }
            \cup { MkInput(fr, "eof", <<>>, <<StreamInfoBlock>>, FALSE, SamplesOf(fr)) }
            : fr \in { MkFrames(ks) : ks \in ShortStreams } }

\* the sources whose StreamInfo declares each total, with and without a seek
\* table
TotalInputs ==
    UNION { { MkInput(fr, "eof", <<>>, blocks, TRUE, declared) :
                declared \in DeclaredTotals(fr),
                blocks \in { <<StreamInfoBlock>>,
                             <<StreamInfoBlock, SeekTableBlock(AllStarts(fr))>> } }
            : fr \in { MkFrames(ks) : ks \in ShortStreams } }

\* the sources whose seek table is built: 0 .. LongFrames frames, no seek table
LongStream == MkFrames(Uniform(LongFrames))

BuildInputs ==
    { MkInput(SubSeq(LongStream, 1, n), "eof", <<>>, <<StreamInfoBlock>>, TRUE,
              SamplesOf(SubSeq(LongStream, 1, n))) :
        n \in 0..LongFrames }

\* the values of a size byte of a tag: the least, the greatest, and those on
\* either side of the high bit
SizeBytes == {0, 1, 127, 128, 129, 255}

\* the sources with a tag of every declared size: the plain chain, and frames
\* enough for the source to end inside the four bytes read as the signature
\* when a size byte of 128 is taken for 128 bytes of tag
SizeInputs ==
    { MkInput(MkFrames(Alternating(TagFrames)), "eof", <<b0, b1, b2, b3>>,
              <<StreamInfoBlock>>, TRUE, SamplesOf(MkFrames(Alternating(TagFrames)))) :
        b0 \in SizeBytes, b1 \in SizeBytes, b2 \in SizeBytes, b3 \in SizeBytes }

----------------------------------------------------------------------------
(* The frame codec (frame.New, frame.Parse) on the source *)

\* the frame that starts at position p, or 0
FrameAt(p) ==
    LET S == { i \in 1..Len(in.frames) : in.frameBase + in.frames[i].start = p }
    IN IF S = {} THEN 0 ELSE CHOOSE i \in S : TRUE

\* frame.New: parses the header of the frame at p
frameNew(p) ==
    IF FrameAt(p) # 0
    THEN LET f == in.frames[FrameAt(p)]
         IN [err |-> "nil", pos |-> p + f.hdr, bs |-> f.bs, first |-> f.first]
    ELSE IF p = in.bodyEnd /\ in.tail = "corrupt"
    THEN [err |-> "nil", pos |-> p + CorruptFrame.hdr, bs |-> CorruptFrame.bs,
          first |-> in.samples]
    ELSE IF p >= in.fileLen
    THEN [err |-> "EOF", pos |-> p, bs |-> 0, first |-> 0]
    ELSE [err |-> "frame", pos |-> p, bs |-> 0, first |-> 0]

\* frame.Parse: parses the whole frame at p and verifies its CRC-16
frameParse(p) ==
    IF FrameAt(p) # 0
    THEN LET f == in.frames[FrameAt(p)]
         IN [err |-> "nil", pos |-> p + f.len, bs |-> f.bs, first |-> f.first]
    ELSE IF p = in.bodyEnd /\ in.tail = "corrupt"
    THEN [err |-> "frame", pos |-> p + CorruptFrame.len, bs |-> 0, first |-> 0]
    ELSE IF p >= in.fileLen
    THEN [err |-> "EOF", pos |-> p, bs |-> 0, first |-> 0]
    ELSE [err |-> "frame", pos |-> p, bs |-> 0, first |-> 0]

----------------------------------------------------------------------------
(* Construction *)

\* skipID3v2, entered with 4 bytes read: [err, pos], the position of stream.r
\* afterwards.  bufio.NewReader(stream.r) is stream.r itself when that is a
\* bufio.Reader (New, Parse); otherwise (NewSeek) it is a new reader that fills
\* its buffer from stream.r in reads of defaultBufSize bytes, and what it has
\* read ahead is lost with it.  Discard fails when the source ends first.
skipID3v2(isBuffered) ==
    LET size == synchsafe(in.tag)
        want == 2 + 4 + size
        fills == (want + defaultBufSize - 1) \div defaultBufSize
        ahead == IF fills * defaultBufSize < in.fileLen - 4
                 THEN fills * defaultBufSize ELSE in.fileLen - 4
    IN IF 4 + want > in.fileLen
       THEN [err |-> "EOF", pos |-> in.fileLen]
       ELSE [err |-> "nil", pos |-> IF isBuffered THEN 4 + want ELSE 4 + ahead]

\* meta.New and meta.Parse on block b: the error returned
metaParse(b) ==
    IF b.type = "reserved" THEN "ErrReservedType"
    ELSE IF b.type = "bad" THEN "meta"
    ELSE "nil"

\* parseStreamInfo: [err, pos, sigAt].  io.ReadFull returns io.EOF when no
\* byte is left and io.ErrUnexpectedEOF when fewer than four are; an error of
\* meta.Parse on the first block is returned as it is (ErrReservedType too),
\* the header of the block read and, for a reserved block, its body not
parseStreamInfo(isBuffered) ==
    LET sk == IF in.tag = <<>> THEN [err |-> "nil", pos |-> 0] ELSE skipID3v2(isBuffered)
        at == sk.pos
    IN IF sk.err # "nil"
       THEN [err |-> sk.err, pos |-> sk.pos, sigAt |-> 0 - 1]
       ELSE IF at + 4 > in.fileLen
       THEN [err |-> IF at >= in.fileLen THEN "EOF" ELSE "ErrUnexpectedEOF",
             pos |-> in.fileLen, sigAt |-> at]
       ELSE IF at # in.sigOff
       THEN [err |-> "signature", pos |-> at + 4, sigAt |-> at]
       ELSE IF metaParse(in.blocks[1]) # "nil"
       THEN [err |-> metaParse(in.blocks[1]),
             pos |-> IF in.blocks[1].type = "reserved" THEN at + 4 + 4 ELSE at + 4,
             sigAt |-> at]
       ELSE IF in.blocks[1].type # "streaminfo"
       THEN [err |-> "streaminfo", pos |-> at + 4 + in.blocks[1].size, sigAt |-> at]
       ELSE [err |-> "nil", pos |-> at + 4 + in.blocks[1].size, sigAt |-> at]

IsLast(i) == i = Len(in.blocks)

\* a loop that returns every error of the metadata decoder
RECURSIVE sequenceStrict(_, _, _, _, _)
sequenceStrict(i, p, kept, table, found) ==
    IF IsLast(i)
    THEN [err |-> "nil", pos |-> p, kept |-> kept, table |-> table, found |-> found]
    ELSE LET b == in.blocks[i + 1]
         IN IF metaParse(b) # "nil"
            THEN [err |-> metaParse(b), pos |-> p, kept |-> kept, table |-> table,
                  found |-> found]
            ELSE sequenceStrict(i + 1, p + b.size, Append(kept, b.type),
                                IF b.type = "seektable" THEN b.points ELSE table,
                                found \/ b.type = "seektable")

\* a loop that reads the header of a seek table and not its points
RECURSIVE sequenceShort(_, _, _, _, _)
sequenceShort(i, p, kept, table, found) ==
    IF IsLast(i)
    THEN [err |-> "nil", pos |-> p, kept |-> kept, table |-> table, found |-> found]
    ELSE LET b == in.blocks[i + 1]
         IN IF metaParse(b) \notin {"nil", "ErrReservedType"}
            THEN [err |-> metaParse(b), pos |-> p, kept |-> kept, table |-> table,
                  found |-> found]
            ELSE sequenceShort(i + 1, p + (IF b.type = "seektable" THEN 4 ELSE b.size),
                               Append(kept, b.type),
                               IF b.type = "seektable" THEN b.points ELSE table,
                               found \/ b.type = "seektable")

\* the loop "for !block.IsLast" of the constructors, entered with block i read:
\* [err, pos, kept, table, found].  An error of the metadata decoder other
\* than ErrReservedType ends the loop; the body of a block is parsed or
\* skipped, by its length
RECURSIVE sequence(_, _, _, _, _)
sequence(i, p, kept, table, found) ==
    IF IsLast(i)
    THEN [err |-> "nil", pos |-> p, kept |-> kept, table |-> table, found |-> found]
    ELSE LET b == in.blocks[i + 1]
         IN IF metaParse(b) \notin {"nil", "ErrReservedType"}
            THEN [err |-> metaParse(b), pos |-> p, kept |-> kept, table |-> table,
                  found |-> found]
            ELSE sequence(i + 1, p + b.size, Append(kept, b.type),
                          IF b.type = "seektable" THEN b.points ELSE table,
                          found \/ b.type = "seektable")

\* no earlier call with the same arguments
NoEarlier == [result |-> 0, pos |-> 0, built |-> "none"]

\* a call and what it returned.  built: how the seek-table build of the call
\* ended ("none": there was none); from: the position of the source when Seek
\* was called (kept for a call that builds the table, seeks from the current
\* position or names no mode); at: the position when the build returned;
\* had: the session had a seek table when Seek was called;
\* again: the call before was a successful Seek with the same arguments, and
\* was is what that call returned and where it left the source
NoCall == [op |-> "none", arg |-> 0, whence |-> 0, result |-> 0, err |-> "nil",
           built |-> "none", point |-> ZeroPoint, from |-> 0, at |-> 0,
           had |-> FALSE, again |-> FALSE, was |-> NoEarlier]

Start ==
    /\ pc = "start"
    /\ ctor = "none"
    /\ buffered = FALSE
    /\ pos = 0
    /\ sigAt = -1
    /\ Blocks = <<>>
    /\ hasTable = FALSE
    /\ seekTable = <<>>
    /\ seekTableSize = 0
    /\ dataStart = 0
    /\ origin = "none"
    /\ scans = 0
    /\ last = NoCall

Init == in \in Inputs /\ Start

\* New: the session reads through a bufio.Reader; blocks are skipped
New ==
    /\ pc = "start"
    /\ LET si == parseStreamInfo(TRUE)
           sq == sequence(1, si.pos, <<>>, <<>>, FALSE)
       IN /\ ctor' = "New"
          /\ buffered' = TRUE
          /\ sigAt' = si.sigAt
          /\ pc' = IF si.err = "nil" /\ sq.err = "nil" THEN "ready" ELSE "failed"
          /\ pos' = IF si.err = "nil" THEN sq.pos ELSE si.pos
          /\ last' = [NoCall EXCEPT !.op = "New",
                                    !.err = IF si.err = "nil" THEN sq.err ELSE si.err]
    /\ UNCHANGED <<in, Blocks, hasTable, seekTable, seekTableSize, dataStart, origin,
                   scans>>

\* Parse: as New, and every block after StreamInfo is retained
Parse ==
    /\ pc = "start"
    /\ LET si == parseStreamInfo(TRUE)
           sq == sequence(1, si.pos, <<>>, <<>>, FALSE)
       IN /\ ctor' = "Parse"
          /\ buffered' = TRUE
          /\ sigAt' = si.sigAt
          /\ pc' = IF si.err = "nil" /\ sq.err = "nil" THEN "ready" ELSE "failed"
          /\ pos' = IF si.err = "nil" THEN sq.pos ELSE si.pos
          /\ Blocks' = IF si.err = "nil" THEN sq.kept ELSE <<>>
          /\ last' = [NoCall EXCEPT !.op = "Parse",
                                    !.err = IF si.err = "nil" THEN sq.err ELSE si.err]
    /\ UNCHANGED <<in, hasTable, seekTable, seekTableSize, dataStart, origin, scans>>

\* NewSeek: the session reads the io.ReadSeeker itself; an embedded seek table
\* is captured, and dataStart is the position after the last block
NewSeek ==
    /\ pc = "start"
    /\ ctor' = "NewSeek"
    /\ IF ~in.seekable
       THEN /\ pc' = "failed"
            /\ last' = [NoCall EXCEPT !.op = "NewSeek", !.err = "ErrNoSeeker"]
            /\ UNCHANGED <<buffered, pos, sigAt, hasTable, seekTable,
                           seekTableSize, dataStart, origin>>
       ELSE LET si == parseStreamInfo(FALSE)
                sq == sequence(1, si.pos, <<>>, <<>>, FALSE)
                ok == si.err = "nil" /\ sq.err = "nil"
            IN /\ buffered' = FALSE
               /\ seekTableSize' = defaultSeekTableSize
               /\ sigAt' = si.sigAt
               /\ pc' = IF ok THEN "ready" ELSE "failed"
               /\ pos' = IF si.err = "nil" THEN sq.pos ELSE si.pos
               /\ hasTable' = (si.err = "nil" /\ sq.found)
               /\ seekTable' = IF si.err = "nil" THEN sq.table ELSE <<>>
               /\ origin' = IF si.err = "nil" /\ sq.found THEN "embedded" ELSE "none"
               /\ dataStart' = IF ok THEN sq.pos ELSE 0
               /\ last' = [NoCall EXCEPT !.op = "NewSeek",
                                         !.err = IF si.err = "nil" THEN sq.err ELSE si.err]
    /\ UNCHANGED <<in, Blocks, scans>>

----------------------------------------------------------------------------
(* Frame access *)

\* Next: frame.New(stream.r)
Next_ ==
    /\ pc = "ready"
    /\ LET f == frameNew(pos)
       IN /\ pos' = f.pos
          /\ last' = [NoCall EXCEPT !.op = "Next", !.err = f.err, !.result = f.first]
    /\ UNCHANGED <<in, pc, ctor, buffered, sigAt, Blocks, hasTable, seekTable,
                   seekTableSize, dataStart, origin, scans>>

\* ParseNext: frame.Parse(stream.r)
ParseNext ==
    /\ pc = "ready"
    /\ LET f == frameParse(pos)
       IN /\ pos' = f.pos
          /\ last' = [NoCall EXCEPT !.op = "ParseNext", !.err = f.err, !.result = f.first]
    /\ UNCHANGED <<in, pc, ctor, buffered, sigAt, Blocks, hasTable, seekTable,
                   seekTableSize, dataStart, origin, scans>>

----------------------------------------------------------------------------
(* Seeking *)

\* rs.Seek that takes every offset as relative to the current position
rsSeekRelative(cur, offset, whence) == cur + offset

\* rs.Seek(offset, whence) on a source at position cur: the new position
rsSeek(cur, offset, whence) ==
    IF whence = SeekStart THEN offset ELSE cur + offset

\* the loop of searchFromStart, at index i (from 1) with the previous point
RECURSIVE searchLoop(_, _, _, _)
searchLoop(points, i, prev, sample) ==
    IF i > Len(points)
    THEN IF points = <<>> THEN ZeroPoint ELSE points[Len(points)]
    ELSE IF points[i].sampleNum >= sample
    THEN IF i = 1 THEN points[i] ELSE prev
    ELSE searchLoop(points, i + 1, points[i], sample)

\* a search that returns the first point at or after the sample
RECURSIVE ceilLoop(_, _, _)
ceilLoop(points, i, sample) ==
    IF i > Len(points)
    THEN IF points = <<>> THEN ZeroPoint ELSE points[Len(points)]
    ELSE IF points[i].sampleNum >= sample THEN points[i]
    ELSE ceilLoop(points, i + 1, sample)

searchCeil(points, sample) == ceilLoop(points, 1, sample)

searchFromStart(points, sample) == searchLoop(points, 1, ZeroPoint, sample)

\* searchFromEnd, with stream.Info.NSamples the total StreamInfo declares
searchFromEnd(points, sample) == searchFromStart(points, in.nsamples + sample)

\* the loop of searchFromCurrent, with o the position of the source
RECURSIVE currentLoop(_, _, _, _)
currentLoop(points, i, offset, sample) ==
    IF i > Len(points)
    THEN IF points = <<>> THEN ZeroPoint ELSE points[Len(points)]
    ELSE IF points[i].offset >= offset
    THEN searchFromStart(points, points[i].sampleNum + sample)
    ELSE currentLoop(points, i + 1, offset, sample)

\* a search from the current position that compares the offsets of the
\* points, which count from dataStart, with the position in the source
searchFromCurrentAbsolute(points, o, sample) == currentLoop(points, 1, o, sample)

searchFromCurrent(points, o, sample) ==
    currentLoop(points, 1, o - dataStart, sample)

\* a scan that takes an error of frame.Parse for the end of the stream
scanFramesLenient(cur, failAt) ==
    LET j == FrameAt(cur)
        n == IF j = 0 THEN 0 ELSE Len(in.frames) - j + 1
        point(i) ==
            LET f == in.frames[j + i - 1]
            IN [sampleNum |-> f.first - in.frames[j].first,
                offset |-> in.frameBase + f.start + f.len - dataStart,
                nSamples |-> f.bs]
        endOf(i) == in.frameBase + in.frames[j + i - 1].start + in.frames[j + i - 1].len
        stop == frameParse(IF j = 0 THEN cur ELSE in.bodyEnd)
    IN IF failAt >= 3 /\ failAt <= 2 + n
       THEN [err |-> "io", pos |-> endOf(failAt - 2),
             tmp |-> [i \in 1..(failAt - 3) |-> point(i)], calls |-> failAt]
       ELSE [err |-> "nil", pos |-> stop.pos, tmp |-> [i \in 1..n |-> point(i)],
             calls |-> 2 + n]

\* the scan of makeSeekTable from position cur, two repositionings made so
\* far, the failAt-th of the call failing: [err, pos, tmp, calls].
\* Frames lie end to end, so the loop parses the frame at cur and every frame
\* after it, appending after each the point (samples so far, position after
\* the frame - dataStart, block size), until frame.Parse at the end of the last
\* frame returns io.EOF or an error, or a position query fails.
scanFrames(cur, failAt) ==
    LET j == FrameAt(cur)
        n == IF j = 0 THEN 0 ELSE Len(in.frames) - j + 1
        point(i) ==
            LET f == in.frames[j + i - 1]
            IN [sampleNum |-> f.first - in.frames[j].first,
                offset |-> rsSeek(in.frameBase + f.start + f.len, 0, SeekCurrent) - dataStart,
                nSamples |-> f.bs]
        endOf(i) == in.frameBase + in.frames[j + i - 1].start + in.frames[j + i - 1].len
        stop == frameParse(IF j = 0 THEN cur ELSE in.bodyEnd)
    IN IF failAt >= 3 /\ failAt <= 2 + n
       THEN [err |-> "io", pos |-> endOf(failAt - 2),
             tmp |-> [i \in 1..(failAt - 3) |-> point(i)], calls |-> failAt]
       ELSE [err |-> IF stop.err = "EOF" THEN "nil" ELSE stop.err,
             pos |-> stop.pos, tmp |-> [i \in 1..n |-> point(i)], calls |-> 2 + n]

\* "reduce the number of seek points down to the specified resolution":
\* the points of tmp at the indexes lo .. hi (from 0) that are multiples of m
RECURSIVE keepEvery(_, _, _, _)
keepEvery(tmp, lo, hi, m) ==
    IF lo > hi THEN <<>>
    ELSE IF lo = hi THEN (IF lo % m = 0 THEN <<tmp[lo + 1]>> ELSE <<>>)
    ELSE keepEvery(tmp, lo, (lo + hi) \div 2, m)
         \o keepEvery(tmp, (lo + hi) \div 2 + 1, hi, m)

\* a reduction whose loop starts at the second point
reducePointsFromSecond(tmp, size) ==
    LET m == IF Len(tmp) > size THEN Len(tmp) \div size ELSE 1
    IN keepEvery(tmp, 1, Len(tmp) - 1, m)

reducePoints(tmp, size) ==
    LET m == IF Len(tmp) > size THEN Len(tmp) \div size ELSE 1
    IN keepEvery(tmp, 0, Len(tmp) - 1, m)

\* makeSeekTable, called at position pos: [err, pos, installed, points, calls, kind]
makeSeekTable(failAt) ==
    LET none == [err |-> "nil", pos |-> pos, installed |-> FALSE, points |-> <<>>,
                 calls |-> 0, kind |-> "ok"]
    IN IF buffered
       THEN [none EXCEPT !.err = "ErrNoSeeker", !.kind = "noseeker"]
       ELSE IF failAt = 1
       THEN [none EXCEPT !.err = "io", !.calls = 1, !.kind = "query"]
       ELSE IF failAt = 2
       THEN [none EXCEPT !.err = "io", !.calls = 2, !.kind = "query"]
       ELSE LET sc == scanFrames(rsSeek(pos, dataStart, SeekStart), failAt)
                points == reducePoints(sc.tmp, seekTableSize)
            IN IF sc.err # "nil"
               THEN [none EXCEPT !.err = sc.err, !.pos = sc.pos, !.calls = sc.calls,
                                 !.kind = IF sc.err = "io" THEN "query" ELSE "decode"]
               ELSE IF failAt = sc.calls + 1
               THEN [err |-> "io", pos |-> sc.pos, installed |-> TRUE,
                     points |-> points, calls |-> sc.calls + 1, kind |-> "restore"]
               ELSE [err |-> "nil", pos |-> rsSeek(sc.pos, pos, SeekStart),
                     installed |-> TRUE, points |-> points, calls |-> sc.calls + 1,
                     kind |-> "ok"]

\* Seek, from the table lookup on: the table tab is there or not (has), the
\* source is at position p and k repositionings were made by the build
resolve(sampleNum, whence, failAt, has, tab, p, k) ==
    LET out == [result |-> 0, err |-> "nil", pos |-> p, point |-> ZeroPoint]
    IN IF buffered
       THEN [out EXCEPT !.err = "panic"]
       ELSE IF whence \notin {SeekStart, SeekCurrent, SeekEnd}
       THEN [out EXCEPT !.err = "ErrInvalidSeek"]
       ELSE IF whence = SeekCurrent /\ failAt = k + 1
       THEN [out EXCEPT !.err = "io"]
       ELSE IF ~has
       THEN [out EXCEPT !.err = "panic"]
       ELSE LET point == IF whence = SeekStart THEN searchFromStart(tab, sampleNum)
                         ELSE IF whence = SeekCurrent
                         THEN searchFromCurrent(tab, rsSeek(p, 0, SeekCurrent), sampleNum)
                         ELSE searchFromEnd(tab, sampleNum)
                k1 == IF whence = SeekCurrent THEN k + 1 ELSE k
            IN IF failAt = k1 + 1 \/ dataStart + point.offset < 0
               THEN [result |-> point.sampleNum, err |-> "io", pos |-> p, point |-> point]
               ELSE [result |-> point.sampleNum, err |-> "nil",
                     pos |-> rsSeek(p, dataStart + point.offset, SeekStart),
                     point |-> point]

\* a Seek that builds the seek table whenever synthesis is enabled
needBuildAlways(has, size) == size > 0

\* "if stream.seekTable == nil && stream.seekTableSize > 0"
needBuild(has, size) == ~has /\ size > 0

\* Seek(sampleNum, whence); the failAt-th repositioning of the source made by
\* the call fails (0: none does), leaving the source where it was
Seek(sampleNum, whence, failAt) ==
    /\ pc = "ready"
    /\ LET need == needBuild(hasTable, seekTableSize)
           b == makeSeekTable(failAt)
           again == /\ last.op = "Seek" /\ last.err = "nil"
                    /\ last.arg = sampleNum /\ last.whence = whence
           call == [NoCall EXCEPT
                      !.op = "Seek", !.arg = sampleNum, !.whence = whence,
                      !.from = IF need \/ whence \notin {SeekStart, SeekEnd} THEN pos ELSE 0,
                      !.at = IF need THEN b.pos ELSE 0,
                      !.had = hasTable,
                      !.again = again,
                      !.was = IF again
                              THEN [result |-> last.result, pos |-> pos, built |-> last.built]
                              ELSE NoEarlier]
       IN IF need /\ b.err # "nil"
          THEN /\ pos' = b.pos
               /\ hasTable' = b.installed
               /\ seekTable' = b.points
               /\ origin' = IF b.installed THEN "built" ELSE origin
               /\ pc' = pc
               /\ last' = [call EXCEPT !.err = b.err, !.built = b.kind]
          ELSE LET r == IF need
                        THEN resolve(sampleNum, whence, failAt, TRUE, b.points, b.pos, b.calls)
                        ELSE resolve(sampleNum, whence, failAt, hasTable, seekTable, pos, 0)
               IN /\ pos' = r.pos
                  /\ hasTable' = (hasTable \/ need)
                  /\ seekTable' = IF need THEN b.points ELSE seekTable
                  /\ origin' = IF need THEN "built" ELSE origin
                  /\ pc' = IF r.err = "panic" THEN "panicked" ELSE pc
                  /\ last' = [call EXCEPT !.result = r.result, !.err = r.err,
                                          !.point = r.point,
                                          !.built = IF need THEN "ok" ELSE "none"]
    /\ scans' = IF needBuild(hasTable, seekTableSize) /\ scans < MaxScans
                THEN scans + 1 ELSE scans
    /\ UNCHANGED <<in, ctor, buffered, sigAt, Blocks, seekTableSize, dataStart>>

Min(a, b) == IF a <= b THEN a ELSE b

\* the calls of rs.Seek that a call of Seek in mode whence makes in this state
\* when none of them fails.  The build, when it is needed, makes two before
\* the scan, one after each frame parsed and one to end it, and none after a
\* frame that fails; Seek returns after a build that fails.  The lookup makes
\* none on a session that reads through a bufio.Reader (the assertion
\* panics) or in a mode that is none of the three, and otherwise the query of
\* searchFromCurrent and the final rs.Seek, which with a nil table is not
\* reached
Repositionings(whence) ==
    LET b == makeSeekTable(0)
        lookup(has) ==
            IF buffered \/ whence \notin {SeekStart, SeekCurrent, SeekEnd} THEN 0
            ELSE IF ~has THEN (IF whence = SeekCurrent THEN 1 ELSE 0)
            ELSE IF whence = SeekCurrent THEN 2 ELSE 1
    IN IF needBuild(hasTable, seekTableSize)
       THEN IF b.err # "nil" THEN b.calls ELSE b.calls + lookup(TRUE)
       ELSE lookup(hasTable)

\* the calls of Seek: every sample number from before the first sample to
\* past the last one, in the three modes; an invalid mode; a failure of one
\* of the first repositionings in each mode; from the start, a failure of
\* each repositioning the call makes; and from the current position, a
\* failure of each of the last two the call makes (those of the lookup, when
\* the build succeeds)
SeekCalls ==
    LET n == in.samples
    IN { <<s, SeekStart, 0>> : s \in (0 - 1)..(n + 1) }
       \cup { <<s, SeekCurrent, 0>> : s \in (0 - 2)..2 }
       \cup { <<s, SeekEnd, 0>> : s \in (0 - n - 1)..1 }
       \cup { <<s, 3, 0>> : s \in {0, 1} }
       \cup UNION { { <<0, w, k>> : k \in 1..Min(FirstSeekFail, Repositionings(w)) }
                    : w \in 0..3 }
       \cup { <<0, SeekStart, k>> :
                  k \in 1..Min(Len(in.frames) + MaxSeekFail, Repositionings(SeekStart)) }
       \cup { <<0, SeekCurrent, k>> :
                  k \in { j \in 1..(Len(in.frames) + MaxSeekFail) :
                             /\ j <= Repositionings(SeekCurrent)
                             /\ j >= Repositionings(SeekCurrent) - 1 } }

Next ==
    \/ New
    \/ Parse
    \/ NewSeek
    \/ Next_
    \/ ParseNext
    \/ \E c \in SeekCalls : Seek(c[1], c[2], c[3])

Spec == Init /\ [][Next]_vars

\* seeking from the end on a source whose StreamInfo declares the samples of
\* the frames, no total or too small a total
InitTotal == in \in TotalInputs /\ Start

EndCalls == { <<s, SeekEnd, 0>> : s \in (0 - in.samples - 1)..1 }

NextTotal ==
    \/ NewSeek
    \/ ParseNext
    \/ \E c \in EndCalls \cup {<<0, SeekStart, 0>>} : Seek(c[1], c[2], c[3])

SpecTotal == InitTotal /\ [][NextTotal]_vars

\* the constructors that read through a bufio.Reader, on a source with a tag
\* of every declared size
InitSize == in \in SizeInputs /\ Start

NextSize == New \/ Parse

SpecSize == InitSize /\ [][NextSize]_vars

\* building the seek table of streams of every length up to LongFrames
InitBuild == in \in BuildInputs /\ Start

BuildSeek == Seek(0, SeekStart, 0)

NextBuild == NewSeek \/ BuildSeek

SpecBuild == InitBuild /\ [][NextBuild]_vars

----------------------------------------------------------------------------
(* Properties *)

SeekReturned == last.op = "Seek" /\ last.err = "nil"

\* the frame whose first sample is s, or 0
FrameOfSample(s) ==
    LET S == { j \in 1..Len(in.frames) : in.frames[j].first = s }
    IN IF S = {} THEN 0 ELSE CHOOSE j \in S : TRUE

\* C1: every point (s, o) of a seek table built by makeSeekTable has o the
\* offset, from dataStart, of the first byte of the frame whose first sample
\* is s.
C1_PointsAtFrameStart ==
    origin = "built" =>
        \A i \in 1..Len(seekTable) :
            LET j == FrameOfSample(seekTable[i].sampleNum)
            IN /\ j # 0
               /\ dataStart + seekTable[i].offset = in.frameBase + in.frames[j].start

\* C2: with a non-empty seek table and p in [0, totalSamples], a successful
\* Seek(p, SeekStart) returns a sample <= p, except when p is at or before the
\* first point's sample, where the first point is returned.
C2_FloorFromStart ==
    ( /\ SeekReturned /\ last.whence = SeekStart
      /\ seekTable # <<>>
      /\ last.arg \in 0..in.nsamples )
    => IF last.arg <= seekTable[1].sampleNum
       THEN /\ last.point = seekTable[1]
            /\ last.result = seekTable[1].sampleNum
            /\ last.result >= last.arg
       ELSE last.result <= last.arg

\* a Seek from the start past the first point of a table of three points or
\* more returned a later point below the target
C2_Witness ==
    /\ SeekReturned /\ last.whence = SeekStart
    /\ Len(seekTable) >= 3
    /\ last.arg \in 1..in.nsamples
    /\ last.result > 0 /\ last.result < last.arg

\* C3: the result of a successful Seek is >= the requested sample number.
C3_ResultAtLeastRequested ==
    (SeekReturned /\ last.whence = SeekStart) => last.result >= last.arg

\* C4: with a non-empty seek table and p greater than the first point's
\* sample, Seek(p, SeekStart) resolves to the greatest point whose sample does
\* not exceed p (the point at p when there is one) and leaves the source at
\* dataStart + that point's offset.
C4_GreatestNotExceeding ==
    ( /\ SeekReturned /\ last.whence = SeekStart
      /\ seekTable # <<>>
      /\ last.arg > seekTable[1].sampleNum )
    => /\ \E i \in 1..Len(seekTable) : seekTable[i] = last.point
       /\ last.point.sampleNum <= last.arg
       /\ \A i \in 1..Len(seekTable) :
             seekTable[i].sampleNum <= last.arg
                => seekTable[i].sampleNum <= last.point.sampleNum
       /\ last.result = last.point.sampleNum
       /\ pos = dataStart + last.point.offset

\* C5: a seek table built by makeSeekTable with target size T > 0 has at most
\* T + 1 points.
C5_TableSizeBound ==
    (origin = "built" /\ seekTableSize > 0) => Len(seekTable) <= seekTableSize + 1

\* C6: of two successful calls Seek(p, SeekStart) in a row, the second returns
\* the sample the first returned and leaves the source where the first left it.
C6_SeekIdempotent ==
    (SeekReturned /\ last.whence = SeekStart /\ last.again)
    => /\ last.result = last.was.result
       /\ pos = last.was.pos

\* Seek(p, SeekStart) built the seek table and resolved to a point after the
\* first, and was called again
C6_Witness ==
    /\ SeekReturned /\ last.whence = SeekStart /\ last.again
    /\ last.was.built = "ok"
    /\ last.result > 0
    /\ pos > dataStart

\* C7: behind a tag of declared size S, the signature compared with "fLaC" is
\* read at offset 10 + S, whichever constructor reads it.
C7_SignatureAfterTag ==
    (in.tag # <<>> /\ sigAt >= 0) => sigAt = 10 + synchsafe(in.tag)

\* C8: a seek-table build that succeeds, or fails for a frame-decode or
\* position-query error, returns with the source where it was when Seek was
\* called.
C8_BuildRestoresPosition ==
    (last.op = "Seek" /\ last.built \in {"ok", "decode", "query"})
    => last.at = last.from

\* C9: Seek (in any of the three modes) on a session whose seek table is empty
\* fails with ErrNoSeeker.
C9_EmptyTableUnsupported ==
    ( /\ last.op = "Seek" /\ last.whence \in {SeekStart, SeekCurrent, SeekEnd}
      /\ hasTable /\ seekTable = <<>>
      /\ last.err # "io" )
    => last.err = "ErrNoSeeker"

\* C10: Seek on a session without seek table and with synthesis disabled
\* (New, Parse), or whose source cannot be repositioned, returns ErrNoSeeker;
\* it does not panic.
C10_NoSeekerUnsupported ==
    (last.op = "Seek" /\ (buffered \/ (seekTableSize = 0 /\ origin = "none")))
    => (last.err = "ErrNoSeeker" /\ pc # "panicked")

\* the types of the metadata blocks of the source
BlockTypes == { in.blocks[i].type : i \in 1..Len(in.blocks) }

\* the last call was a constructor that read the signature and the
\* StreamInfo block that begins the chain
Constructed ==
    /\ last.op \in {"New", "Parse", "NewSeek"}
    /\ last.err \notin {"ErrNoSeeker", "EOF", "ErrUnexpectedEOF", "signature", "streaminfo"}
    /\ in.blocks[1].type = "streaminfo"

\* C11: Seek with a mode other than SeekStart, SeekCurrent and SeekEnd returns
\* (0, ErrInvalidSeek) in every state of the session, with or without a seek
\* table, and leaves the source where it was.
C11_InvalidModeRejected ==
    ( /\ last.op = "Seek" /\ last.whence \notin {SeekStart, SeekCurrent, SeekEnd}
      /\ last.err # "io" )
    => /\ last.err = "ErrInvalidSeek"
       /\ last.result = 0
       /\ pc # "panicked"
       /\ pos = last.from

\* C12: with a non-empty seek table, Seek(t, SeekEnd) with t >= 0 resolves to
\* the last point of the table, and with -t > totalSamples to the first,
\* totalSamples being the total that StreamInfo declares.
C12_FromEndClamps ==
    (SeekReturned /\ last.whence = SeekEnd /\ seekTable # <<>>)
    => /\ last.arg >= 0 => /\ last.point = seekTable[Len(seekTable)]
                            /\ last.result = seekTable[Len(seekTable)].sampleNum
       /\ 0 - last.arg > in.nsamples => /\ last.point = seekTable[1]
                                         /\ last.result = seekTable[1].sampleNum

\* C13: in New, Parse and NewSeek a block of reserved type anywhere in the
\* chain that follows StreamInfo does not end construction: its body is passed over by its length, the
\* loop goes on to the block marked last, and no block is read after that one.
C13_ReservedBlockSkipped ==
    (Constructed /\ "reserved" \in BlockTypes /\ "bad" \notin BlockTypes)
    => /\ pc = "ready"
       /\ last.err = "nil"
       /\ pos = in.sigOff + 4 + SumSize(in.blocks, Len(in.blocks))
       /\ ctor = "Parse" =>
              Blocks = [i \in 1..(Len(in.blocks) - 1) |-> in.blocks[i + 1].type]
       /\ ctor = "NewSeek" =>
              \A i \in 1..Len(in.blocks) :
                  in.blocks[i].type = "seektable" => seekTable = in.blocks[i].points

\* NewSeek went through a reserved block in the middle of the chain and
\* captured the seek table that follows it
C13_Witness ==
    /\ last.op = "NewSeek" /\ pc = "ready"
    /\ Len(in.blocks) = 4 /\ in.blocks[2].type = "reserved"
    /\ hasTable /\ seekTable # <<>>
    /\ pos = in.frameBase

\* C14: after a successful NewSeek, dataStart is the offset of the first frame
\* header and the source is there, with or without a tag and whatever the
\* number of metadata blocks: the next frame read is the first frame.
C14_DataStartAtFirstFrame ==
    (last.op = "NewSeek" /\ pc = "ready")
    => /\ dataStart = in.frameBase
       /\ pos = dataStart
       /\ in.frames # <<>> => /\ frameNew(pos).err = "nil"
                               /\ frameNew(pos).first = 0
                               /\ FrameAt(dataStart) = 1

\* NewSeek succeeded behind a tag on a chain of two blocks with frames after
C14_Witness ==
    /\ last.op = "NewSeek" /\ pc = "ready"
    /\ in.tag # <<>>
    /\ Len(in.blocks) >= 2 /\ seekTable # <<>>
    /\ Len(in.frames) >= 2
    /\ dataStart > defaultBufSize

\* C15: the scan of makeSeekTable runs at most once in a session, and never
\* in a session whose seek table NewSeek captured from the stream.
C15_BuildAtMostOnce ==
    /\ scans <= 1
    /\ origin = "embedded" => scans = 0

\* C15, amended: a Seek starts makeSeekTable exactly when the session has no
\* seek table and seekTableSize > 0.  So it is never started in a session
\* whose table NewSeek captured, and never again once a build has installed a
\* table; after a build that failed without installing one, the next Seek
\* starts it again.
C15_BuildOnlyWithoutTable ==
    /\ last.op = "Seek" =>
           (last.built # "none" <=> (~last.had /\ seekTableSize > 0))
    /\ scans > 0 => (seekTableSize > 0 /\ origin # "embedded")
    /\ (scans = 0 /\ seekTableSize > 0 /\ pc = "ready" /\ last.op = "Seek") => last.had

\* a second Seek of a session started the build again, the first build having
\* failed on a frame
C15_Witness ==
    /\ last.op = "Seek" /\ last.built = "decode" /\ ~last.had
    /\ scans = 2
    /\ ~hasTable

\* C16: once a session is constructed no call changes dataStart, and once it
\* has a seek table no call changes the points of the table.
C16_DataStartAndTableFixed ==
    [][ pc = "ready" =>
            /\ dataStart' = dataStart
            /\ hasTable => (hasTable' /\ seekTable' = seekTable) ]_vars

\* a Seek returned on a session that already had the table a build installed
C16_Witness ==
    /\ SeekReturned /\ last.had /\ last.built = "none"
    /\ origin = "built" /\ Len(seekTable) >= 2
    /\ dataStart = in.frameBase
    /\ pos # dataStart

\* C17: when the build fails (frame decode, position query or repositioning),
\* Seek returns the error and 0, no seek point is looked up and the session
\* has no seek table afterwards; at the end of the stream the build succeeds.
C17_FailedBuildNoTable ==
    /\ (last.op = "Seek" /\ last.built \in {"decode", "query", "restore"})
       => /\ last.err # "nil"
          /\ last.result = 0
          /\ last.point = ZeroPoint
          /\ pos = last.at
          /\ ~hasTable /\ seekTable = <<>>
    /\ (last.op = "Seek" /\ last.built = "ok") => (hasTable /\ in.tail = "eof")

\* C17, amended: when the build fails on a frame or on a position query, Seek
\* returns that error and 0, no seek point is looked up and the session has no
\* seek table afterwards.  When only the repositioning that ends the build
\* fails, Seek returns that error and 0 and the complete table is installed.
\* A build that reaches the end of the stream installs one point per frame
\* scanned (no more than seekTableSize frames here).
C17_FailedBuild ==
    /\ (last.op = "Seek" /\ last.built \in {"decode", "query"})
       => /\ last.err = (IF last.built = "decode" THEN "frame" ELSE "io")
          /\ last.result = 0
          /\ last.point = ZeroPoint
          /\ pos = last.at
          /\ ~hasTable /\ seekTable = <<>>
    /\ (last.op = "Seek" /\ last.built = "restore")
       => /\ last.err = "io"
          /\ last.result = 0
          /\ last.point = ZeroPoint
          /\ pos = last.at /\ pos = in.bodyEnd
          /\ in.tail = "eof"
          /\ hasTable /\ origin = "built"
          /\ Len(in.frames) <= seekTableSize =>
                 /\ Len(seekTable) = Len(in.frames)
                 /\ \A i \in 1..Len(in.frames) :
                        /\ seekTable[i].sampleNum = in.frames[i].first
                        /\ seekTable[i].nSamples = in.frames[i].bs
                        /\ dataStart + seekTable[i].offset
                               = in.frameBase + in.frames[i].start + in.frames[i].len
    /\ (last.op = "Seek" /\ last.built = "ok")
       => /\ in.tail = "eof"
          /\ hasTable /\ origin = "built"
          /\ Len(in.frames) <= seekTableSize => Len(seekTable) = Len(in.frames)
          /\ \A i \in 1..Len(seekTable) :
                 \E j \in 1..Len(in.frames) : seekTable[i].sampleNum = in.frames[j].first

\* the repositioning that ends the build of a stream of two frames or more
\* failed: Seek returned the error, the source is at the end of the stream and
\* the session has the table of all the frames
C17_Witness ==
    /\ last.op = "Seek" /\ last.built = "restore" /\ last.err = "io"
    /\ Len(in.frames) >= 2
    /\ hasTable /\ Len(seekTable) = Len(in.frames)
    /\ seekTable[2].sampleNum = in.frames[2].first
    /\ pos = in.bodyEnd /\ pos # last.from

\* C18: the number of bytes of tag body the constructor discards is
\* (b0 mod 128)*2^21 + (b1 mod 128)*2^14 + (b2 mod 128)*2^7 + (b3 mod 128)
\* for size bytes b0 .. b3 of any value, and is below 2^28.
C18_SizeSevenBits ==
    (in.tag # <<>> /\ last.op \in {"New", "Parse"})
    => /\ synchsafe(in.tag) = tagBody(in.tag)
       /\ synchsafe(in.tag) < 268435456
       /\ sigAt = 10 + tagBody(in.tag)

\* the first point of the table whose offset is at or after position c of the
\* source, or 0
FirstAtOrAfter(c) ==
    LET S == { i \in 1..Len(seekTable) : seekTable[i].offset >= c - dataStart }
    IN IF S = {} THEN 0 ELSE CHOOSE i \in S : \A k \in S : i <= k

\* C19: Seek(t, SeekCurrent) at position c resolves to the point that
\* Seek(s + t, SeekStart) resolves to, s being the sample of the first point
\* whose offset is at or after c - dataStart; there is such a point for every
\* position c, also past the offset of the last point.
C19_CurrentAsStart ==
    (SeekReturned /\ last.whence = SeekCurrent /\ seekTable # <<>>)
    => /\ FirstAtOrAfter(last.from) # 0
       /\ last.point = searchFromStart(seekTable,
               seekTable[FirstAtOrAfter(last.from)].sampleNum + last.arg)

\* C19, amended: Seek(t, SeekCurrent) at position c resolves to the point
\* that Seek(s + t, SeekStart) resolves to, s being the sample of the first
\* point whose offset is at or after c - dataStart, when there is such a
\* point; at a position past the offset of the last point it resolves to the
\* last point, whatever t is.
C19_CurrentResolution ==
    (SeekReturned /\ last.whence = SeekCurrent /\ seekTable # <<>>)
    => /\ last.result = last.point.sampleNum
       /\ IF FirstAtOrAfter(last.from) # 0
          THEN last.point = searchFromStart(seekTable,
                   seekTable[FirstAtOrAfter(last.from)].sampleNum + last.arg)
          ELSE last.point = seekTable[Len(seekTable)]

\* a Seek backwards from a position past the offset of the last point of a
\* table of two points or more returned the last point
C19_Witness ==
    /\ SeekReturned /\ last.whence = SeekCurrent /\ last.arg < 0
    /\ Len(seekTable) >= 2
    /\ FirstAtOrAfter(last.from) = 0
    /\ last.point = seekTable[Len(seekTable)]

\* C20: a seek table built from a stream of one frame or more is in order of
\* non-decreasing sampleNum, has no two points of the same offset, and its
\* first point is the point of sample 0.
C20_BuiltTableOrdered ==
    (origin = "built" /\ Len(in.frames) >= 1)
    => /\ seekTable # <<>>
       /\ seekTable[1].sampleNum = 0
       /\ \A i \in 1..(Len(seekTable) - 1) :
              /\ seekTable[i].sampleNum <= seekTable[i + 1].sampleNum
              /\ seekTable[i].offset < seekTable[i + 1].offset
       /\ \A i, j \in 1..Len(seekTable) :
              seekTable[i].offset = seekTable[j].offset => i = j

\* a table was built from more than twice seekTableSize frames, every second
\* point or fewer kept
C20_Witness ==
    /\ origin = "built" /\ last.built = "ok"
    /\ Len(in.frames) >= 2 * defaultSeekTableSize
    /\ Len(seekTable) < Len(in.frames)
    /\ seekTable[2].sampleNum > in.frames[2].first

====
